---- MODULE Spec2Model ----
(***************************************************************************)
(* FileBeam backend (server.py): the upload handler as a state machine     *)
(* over a storage root, its volume and the in-flight requests, and the     *)
(* catalog handlers (list, download, hash) over the same storage root.     *)
(*                                                                         *)
(* File names are sequences of one-character strings, file contents are    *)
(* sequences of bytes.  Byte quantities are scaled: the model's volume     *)
(* holds a handful of bytes, the safety margin and the chunk size are a    *)
(* few bytes.                                                              *)
(***************************************************************************)
EXTENDS Integers, Sequences, FiniteSets, TLC

\* ------------------------------------------------------------------ bounds
NumSessions == 2      \* upload requests in one run
MaxStream == 3        \* most bytes one request body carries

Sessions == 1..NumSessions
\* Files the storage root may hold at startup have inodes of their own.
OldInodes == {NumSessions + 1, NumSessions + 2}
Inodes == Sessions \cup OldInodes
\* Byte values; 0 is the byte of a hole.
Bytes == 1..NumSessions

\* An Optional[int] is a sequence of at most one integer: None is <<>>.
None == <<>>
Some(n) == <<n>>

\* ------------------------------------------------------------- characters
Digits == <<"0", "1", "2", "3", "4", "5", "6", "7", "8", "9">>
Whitespace == {" ", "\t", "\n", "\r"}

RECURSIVE str(_)
\* str(i) of a non-negative int, as f"{i}" formats it.
str(i) == IF i < 10 THEN <<Digits[i + 1]>> ELSE str(i \div 10) \o <<Digits[(i % 10) + 1]>>

RECURSIVE rfind(_, _)
\* 1-based index of the last c in s, 0 when there is none (str.rfind + 1).
rfind(s, c) ==
    IF s = <<>> THEN 0
    ELSE IF s[Len(s)] = c THEN Len(s)
    ELSE rfind(SubSeq(s, 1, Len(s) - 1), c)

\* os.path.basename: everything after the last "/".
basename(p) == SubSeq(p, rfind(p, "/") + 1, Len(p))

RECURSIVE lstrip(_, _)
lstrip(s, cs) == IF s # <<>> /\ s[1] \in cs THEN lstrip(Tail(s), cs) ELSE s

RECURSIVE rstrip(_, _)
rstrip(s, cs) ==
    IF s # <<>> /\ s[Len(s)] \in cs THEN rstrip(SubSeq(s, 1, Len(s) - 1), cs) ELSE s

\* str.strip(chars): drop leading and trailing characters of the set.
strip(s, cs) == rstrip(lstrip(s, cs), cs)

\* name of Path(x) for a string x without "/": Path("") and Path(".") are the
\* empty path, whose name is "".
PathName(x) == IF x = <<".">> THEN <<>> ELSE x

\* PurePath.suffix: from the last "." on, unless it leads or ends the name.
PathSuffix(name) ==
    LET j == rfind(name, ".")
    IN  IF 1 < j /\ j < Len(name) THEN SubSeq(name, j, Len(name)) ELSE <<>>

\* PurePath.stem: the name without its suffix.
PathStem(name) ==
    LET j == rfind(name, ".")
    IN  IF 1 < j /\ j < Len(name) THEN SubSeq(name, 1, j - 1) ELSE name

\* ------------------------------------------------------------------ paths
RECURSIVE Split(_)
\* The "/"-separated segments of a string.
Split(p) ==
    LET j == rfind(p, "/")
    IN  IF j = 0 THEN <<p>>
        ELSE Split(SubSeq(p, 1, j - 1)) \o <<SubSeq(p, j + 1, Len(p))>>

RECURSIVE Walk(_, _)
\* Where the segments lead from a place: "" and "." stay, ".." goes to the
\* parent, a name goes to the child.  A place is how many levels above the
\* storage root it starts (up) and the names below that (down).
Walk(place, segs) ==
    IF segs = <<>> THEN place
    ELSE LET g == Head(segs)
             next == IF g = <<>> \/ g = <<".">> THEN place
                     ELSE IF g = <<".", ".">>
                          THEN IF place.down # <<>>
                               THEN [place EXCEPT !.down = SubSeq(@, 1, Len(@) - 1)]
                               ELSE [place EXCEPT !.up = @ + 1]
                     ELSE [place EXCEPT !.down = Append(@, g)]
         IN  Walk(next, Tail(segs))

Root == [up |-> 0, down |-> <<>>]
\* A place above every modelled directory: where an absolute path leads.
Elsewhere == [up |-> 99, down |-> <<>>]

\* UPLOAD_DIR / rel: an absolute right operand replaces the left one.
UnderUploadDir(rel) ==
    IF rel # <<>> /\ rel[1] = "/" THEN Walk(Elsewhere, Split(rel)) ELSE Walk(Root, Split(rel))

InsideRoot(place) == place.up = 0
DirectChild(place) == place.up = 0 /\ Len(place.down) = 1

\* ------------------------------------------------------------------ state
VARIABLES
    MAX_FILE_BYTES,   \* configured size ceiling, 0 or negative = unlimited
    CHUNK_SIZE,       \* configured chunk size
    capacity,         \* bytes the volume offers to the storage root when empty
    dir,              \* the storage root: name -> [kind, ino]
    disk,             \* inode -> content; session s's open() creates inode s
    pc,               \* where each upload request stands
    filename,         \* file.filename of the request
    content_length,   \* the parsed Content-Length, an Optional[int]
    dest_path,        \* the name chosen by safe_unique_path
    written,          \* the handler's byte counter
    chunk,            \* the chunk read and not yet written
    out,              \* inode of the open destination handle, 0 = closed
    body,             \* the bytes of the uploaded file not yet read
    broken,           \* whether the read after the last byte raises
    source,           \* the bytes the handler has read from the upload
    result,           \* the response of the request
    reply             \* the response of the last catalog request

config == <<MAX_FILE_BYTES, CHUNK_SIZE, capacity>>
volume == <<dir, disk>>
locals == <<filename, content_length, dest_path, written, chunk, out, body, broken, source>>
vars == <<MAX_FILE_BYTES, CHUNK_SIZE, capacity, dir, disk, pc, filename, content_length,
          dest_path, written, chunk, out, body, broken, source, result, reply>>

\* safety_margin = 64 * 1024**2, scaled.
safety_margin == 2

\* ------------------------------------------------------------- filesystem
Missing == [kind |-> "none", ino |-> 0]
Directory == [kind |-> "dir", ino |-> 0]
RegularFile(i) == [kind |-> "file", ino |-> i]

\* What a place holds.  The storage root and its ancestors are directories;
\* subdirectories of the root are empty; nothing else is known outside.
Stat(d, place) ==
    IF place.down = <<>> THEN Directory
    ELSE IF DirectChild(place) /\ place.down[1] \in DOMAIN d THEN d[place.down[1]]
    ELSE Missing

\* Path.exists() and Path.is_file() of UPLOAD_DIR / rel.
exists(d, rel) == Stat(d, UnderUploadDir(rel)).kind # "none"
is_file(d, rel) == Stat(d, UnderUploadDir(rel)).kind = "file"

\* The bytes a content occupies on the volume: a hole occupies none.
Allocated(content) == Cardinality({i \in 1..Len(content) : content[i] # 0})

RECURSIVE SumLen(_, _)
SumLen(dk, is) ==
    IF is = {} THEN 0
    ELSE LET i == CHOOSE x \in is : TRUE IN Allocated(dk[i]) + SumLen(dk, is \ {i})

\* shutil.disk_usage(UPLOAD_DIR).free
disk_usage(dk) == capacity - SumLen(dk, Inodes)

\* An inode lives while a name or an open handle refers to it.
Reclaim(dk, d, o) ==
    [i \in Inodes |->
        IF (\E n \in DOMAIN d : d[n].ino = i) \/ (\E t \in Sessions : o[t] = i)
        THEN dk[i] ELSE <<>>]

\* The directory without name n.
Without(d, n) == [m \in DOMAIN d \ {n} |-> d[m]]

\* Mutant: the cleanup leaves the partial file in place.
unlink_Keeps(d, rel) == d

\* Path.unlink(missing_ok=True) inside try/except Exception: a missing name is
\* fine, a directory raises and the handler swallows it.
unlink(d, rel) ==
    IF is_file(d, rel) THEN Without(d, UnderUploadDir(rel).down[1]) ELSE d

\* ------------------------------------------------------------ safe names
archivo == <<"a", "r", "c", "h", "i", "v", "o">>

Numbered(name, i, ext) == name \o <<" ", "(">> \o str(i) \o <<")">> \o ext

RECURSIVE FirstFree(_, _, _, _)
\* The while loop of safe_unique_path, entered with dest taken.
FirstFree(d, name, ext, i) ==
    IF exists(d, Numbered(name, i, ext))
    THEN FirstFree(d, name, ext, i + 1)
    ELSE Numbered(name, i, ext)

\* Mutant: the hint is used whole, directory components included.
safe_unique_path_KeepsDirs(d, fname) ==
    LET base == IF fname = <<>> THEN archivo ELSE fname
    IN  IF exists(d, base) THEN FirstFree(d, PathStem(base), PathSuffix(base), 1) ELSE base

\* safe_unique_path(filename): the name of the returned path under UPLOAD_DIR.
safe_unique_path(d, fname) ==
    LET base == PathName(basename(IF fname = <<>> THEN archivo ELSE fname))
    IN  IF exists(d, base) THEN FirstFree(d, PathStem(base), PathSuffix(base), 1) ELSE base

\* ---------------------------------------------------------------- hashing
RECURSIVE update(_, _)
\* h.update(chunk): the accumulator folds the bytes in, one by one.  The
\* digest stands for SHA-256: distinct byte strings have distinct digests.
update(h, bytes) ==
    IF bytes = <<>> THEN h ELSE update(h * 4 + Head(bytes) + 1, Tail(bytes))

RECURSIVE ReadAll(_, _, _)
\* The read loop of sha256sum: CHUNK_SIZE bytes at a time until a read is empty.
ReadAll(h, rest, n) ==
    IF rest = <<>> THEN h
    ELSE IF Len(rest) <= n THEN update(h, rest)
    ELSE ReadAll(update(h, SubSeq(rest, 1, n)), SubSeq(rest, n + 1, Len(rest)), n)

\* sha256sum(path) of an existing regular file.
sha256sum(d, dk, rel) == ReadAll(0, dk[Stat(d, UnderUploadDir(rel)).ino], CHUNK_SIZE)

\* -------------------------------------------------------------- responses
NoResult == [status |-> 0, filename |-> <<>>, bytes |-> 0, sha256 |-> 0]
HTTPException(code) == [status |-> code, filename |-> <<>>, bytes |-> 0, sha256 |-> 0]
\* An exception that is no HTTPException leaves the handler: a 500 response.
ServerError == HTTPException(500)
Ok(name, n, digest) == [status |-> 200, filename |-> name, bytes |-> n, sha256 |-> digest]

TooLarge == 413
InsufficientSpace == 507

\* ----------------------------------------------------------------- upload
\* int(cl_header) of a present header; an absent or unparsable header is None.
ParseContentLength(header) ==
    IF header.present /\ header.numeric THEN Some(header.value) ELSE None

\* Python truthiness of an Optional[int]: None and 0 are falsy.
Truthy(opt) == opt # None /\ opt[1] # 0

\* expected = content_length or MAX_FILE_BYTES or 0
Expected(cl) == IF Truthy(cl) THEN cl[1] ELSE MAX_FILE_BYTES

\* Mutant: the handler has no Content-Length check.
PreflightTooLarge_Missing(cl) == FALSE

\* The pre-flight size check of step 1.
PreflightTooLarge(cl) == MAX_FILE_BYTES > 0 /\ Truthy(cl) /\ cl[1] > MAX_FILE_BYTES

\* The pre-flight space check of step 2.
PreflightNoSpace(cl, free) == Expected(cl) > 0 /\ free < Expected(cl) + safety_margin

\* Lines 95-116: the header checks, then the destination name.  Nothing awaits
\* in between, so the step is atomic.
Start(s, fname, header, upload) ==
    LET cl == ParseContentLength(header)
        free == disk_usage(disk)
    IN  /\ pc[s] = "idle"
        /\ filename' = [filename EXCEPT ![s] = fname]
        /\ body' = [body EXCEPT ![s] = upload.data]
        /\ broken' = [broken EXCEPT ![s] = upload.broken]
        /\ content_length' = [content_length EXCEPT ![s] = cl]
        /\ IF PreflightTooLarge(cl)
           THEN /\ result' = [result EXCEPT ![s] = HTTPException(TooLarge)]
                /\ pc' = [pc EXCEPT ![s] = "done"]
                /\ UNCHANGED dest_path
           ELSE IF PreflightNoSpace(cl, free)
           THEN /\ result' = [result EXCEPT ![s] = HTTPException(InsufficientSpace)]
                /\ pc' = [pc EXCEPT ![s] = "done"]
                /\ UNCHANGED dest_path
           ELSE /\ dest_path' = [dest_path EXCEPT ![s] = safe_unique_path(dir, fname)]
                /\ pc' = [pc EXCEPT ![s] = "open"]
                /\ UNCHANGED result
        /\ UNCHANGED <<config, volume, written, chunk, out, source, reply>>

\* Line 119: aiofiles.open(dest_path, "wb") creates the file, or truncates the
\* file the name already holds; a directory of that name makes open raise.
Open(s) ==
    LET place == UnderUploadDir(dest_path[s])
        entry == Stat(dir, place)
    IN  /\ pc[s] = "open"
        /\ IF entry.kind = "file"
           THEN /\ out' = [out EXCEPT ![s] = entry.ino]
                /\ disk' = [disk EXCEPT ![entry.ino] = <<>>]
                /\ pc' = [pc EXCEPT ![s] = "read"]
                /\ UNCHANGED <<dir, result>>
           ELSE IF entry.kind = "none" /\ DirectChild(place)
           THEN /\ out' = [out EXCEPT ![s] = s]
                /\ dir' = [n \in DOMAIN dir \cup {place.down[1]} |->
                             IF n = place.down[1] THEN RegularFile(s) ELSE dir[n]]
                /\ disk' = [disk EXCEPT ![s] = <<>>]
                /\ pc' = [pc EXCEPT ![s] = "read"]
                /\ UNCHANGED result
           ELSE /\ result' = [result EXCEPT ![s] = ServerError]
                /\ pc' = [pc EXCEPT ![s] = "done"]
                /\ UNCHANGED <<dir, disk, out>>
        /\ UNCHANGED <<config, filename, content_length, dest_path, written, chunk, body,
                       broken, source, reply>>

\* Mutant: the live check refuses a file that reaches the limit exactly.
LiveTooLarge_AtLimit(n) == MAX_FILE_BYTES > 0 /\ n >= MAX_FILE_BYTES

\* Mutant: the handler relies on the Content-Length check and has no live one.
LiveTooLarge_Missing(n) == FALSE

\* Mutant: the live check fires one chunk late.
LiveTooLarge_OneChunkLate(n) == MAX_FILE_BYTES > 0 /\ n - CHUNK_SIZE > MAX_FILE_BYTES

\* The live size check of line 127.
LiveTooLarge(n) == MAX_FILE_BYTES > 0 /\ n > MAX_FILE_BYTES

\* Mutant: the handler checks free space only before the upload.
LiveNoSpace_Missing(free_now) == FALSE

\* The live space check of lines 137-138.
LiveNoSpace(free_now) == free_now < safety_margin

\* written += len(chunk)
Count(n, data) == n + Len(data)

\* Lines 121-145: a read returns data; the counter and the two checks follow
\* without awaiting.  A violation leaves the loop towards flush, close, unlink.
ReadChunk(s, k) ==
    LET data == SubSeq(body[s], 1, k)
        n == Count(written[s], data)
    IN  /\ pc[s] = "read"
        /\ k \in 1..CHUNK_SIZE
        /\ k <= Len(body[s])
        /\ body' = [body EXCEPT ![s] = SubSeq(@, k + 1, Len(@))]
        /\ source' = [source EXCEPT ![s] = @ \o data]
        /\ written' = [written EXCEPT ![s] = n]
        /\ IF LiveTooLarge(n)
           THEN pc' = [pc EXCEPT ![s] = "too_large"] /\ UNCHANGED chunk
           ELSE IF LiveNoSpace(disk_usage(disk))
           THEN pc' = [pc EXCEPT ![s] = "no_space"] /\ UNCHANGED chunk
           ELSE pc' = [pc EXCEPT ![s] = "write"] /\ chunk' = [chunk EXCEPT ![s] = data]
        /\ UNCHANGED <<config, volume, filename, content_length, dest_path, out, broken,
                       result, reply>>

\* The handle's close: the inode goes when no name and no handle holds it.
Close(s) ==
    /\ out' = [out EXCEPT ![s] = 0]
    /\ disk' = Reclaim(disk, dir', [out EXCEPT ![s] = 0])

\* Lines 128-134 and 139-145: flush, close, unlink the partial file, raise.
Abort(s) ==
    /\ pc[s] \in {"too_large", "no_space"}
    /\ dir' = unlink(dir, dest_path[s])
    /\ Close(s)
    /\ result' = [result EXCEPT ![s] =
                    HTTPException(IF pc[s] = "too_large" THEN TooLarge ELSE InsufficientSpace)]
    /\ pc' = [pc EXCEPT ![s] = "done"]
    /\ UNCHANGED <<config, filename, content_length, dest_path, written, chunk, body, broken,
                   source, reply>>

\* The content after a write of data at offset off: a write past the end
\* leaves a hole of zero bytes.
WriteAt(content, off, data) ==
    LET padded == IF Len(content) >= off THEN content
                  ELSE content \o [i \in 1..(off - Len(content)) |-> 0]
    IN  SubSeq(padded, 1, off) \o data \o SubSeq(padded, off + Len(data) + 1, Len(padded))

\* Line 146: out.write(chunk) at the handle's position, which is the number of
\* bytes this handle has written.  A full volume makes the write raise: the
\* with block closes the handle and the exception leaves the handler.
WriteChunk(s) ==
    LET off == written[s] - Len(chunk[s])
        after == WriteAt(disk[out[s]], off, chunk[s])
    IN  /\ pc[s] = "write"
        /\ IF Allocated(after) - Allocated(disk[out[s]]) <= disk_usage(disk)
           THEN /\ disk' = [disk EXCEPT ![out[s]] = after]
                /\ pc' = [pc EXCEPT ![s] = "read"]
                /\ UNCHANGED <<dir, out, result>>
           ELSE /\ dir' = dir
                /\ Close(s)
                /\ result' = [result EXCEPT ![s] = ServerError]
                /\ pc' = [pc EXCEPT ![s] = "done"]
        /\ chunk' = [chunk EXCEPT ![s] = <<>>]
        /\ UNCHANGED <<config, filename, content_length, dest_path, written, body, broken,
                       source, reply>>

\* Lines 122-123 and 147-148: the read returns no data; the loop ends, the
\* with block closes the destination and hashing is next.
ReadEnd(s) ==
    /\ pc[s] = "read"
    /\ body[s] = <<>> /\ ~broken[s]
    /\ dir' = dir
    /\ Close(s)
    /\ pc' = [pc EXCEPT ![s] = "hash"]
    /\ UNCHANGED <<config, filename, content_length, dest_path, written, chunk, body,
                   broken, source, result, reply>>

\* Line 121 raises (the client is gone, the body is broken): the with block
\* closes the destination, finally closes the upload, the exception leaves
\* the handler.  No except clause unlinks dest_path.
ReadError(s) ==
    /\ pc[s] = "read"
    /\ body[s] = <<>> /\ broken[s]
    /\ dir' = dir
    /\ Close(s)
    /\ result' = [result EXCEPT ![s] = ServerError]
    /\ pc' = [pc EXCEPT ![s] = "done"]
    /\ UNCHANGED <<config, filename, content_length, dest_path, written, chunk, body, broken,
                   source, reply>>

\* Lines 150-156: hash the file the name holds now and answer.  sha256sum
\* opens by path: a name that is gone makes it raise.
Hash(s) ==
    /\ pc[s] = "hash"
    /\ result' = [result EXCEPT ![s] =
                    IF is_file(dir, dest_path[s])
                    THEN Ok(dest_path[s], written[s], sha256sum(dir, disk, dest_path[s]))
                    ELSE ServerError]
    /\ pc' = [pc EXCEPT ![s] = "done"]
    /\ UNCHANGED <<config, volume, locals, reply>>

\* ---------------------------------------------------------------- catalog
NotFound == 404

\* safe_name = os.path.basename(name).strip().strip('"').strip("'")
safe_name(name) == strip(strip(strip(basename(name), Whitespace), {"\""}), {"'"})

\* The answer of download and of file_hash: the status, the place that was
\* looked up, and for a 200 the name and the content or digest served.
Answer(op, token, code, rel, served) ==
    [op |-> op, token |-> token, status |-> code, path |-> UnderUploadDir(rel),
     name |-> rel, body |-> served, files |-> <<>>]

\* Lines 167-174: GET /api/download/{name}.
download(d, dk, name) ==
    LET safe == safe_name(name)
    IN  IF ~exists(d, safe) \/ ~is_file(d, safe)
        THEN Answer("download", name, NotFound, safe, <<>>)
        ELSE Answer("download", name, 200, safe, dk[Stat(d, UnderUploadDir(safe)).ino])

\* Lines 176-182: GET /api/hash/{name}.
file_hash(d, dk, name) ==
    LET safe == safe_name(name)
    IN  IF ~exists(d, safe) \/ ~is_file(d, safe)
        THEN Answer("hash", name, NotFound, safe, <<>>)
        ELSE Answer("hash", name, 200, safe, <<sha256sum(d, dk, safe)>>)

NoReply == [op |-> "none", token |-> <<>>, status |-> 0, path |-> Root, name |-> <<>>,
            body |-> <<>>, files |-> <<>>]

\* The characters of the names, in code point order.
Alphabet ==
    <<"\t", "\n", "\r", " ", "\"", "'", "(", ")", ".", "/">> \o Digits \o
    <<"a", "b", "c", "d", "e", "f", "g", "h", "i", "j", "k", "l", "m", "n", "o", "p", "q",
      "r", "s", "t", "u", "v", "w", "x", "y", "z">>

\* ord(c), up to an order-preserving renumbering.
ord(c) == CHOOSE i \in 1..Len(Alphabet) : Alphabet[i] = c

RECURSIVE Less(_, _)
\* a < b of two strings: by the first character that differs, a proper prefix
\* first.  Entries of one directory compare as their names do.
Less(a, b) ==
    IF b = <<>> THEN FALSE
    ELSE IF a = <<>> THEN TRUE
    ELSE IF Head(a) # Head(b) THEN ord(Head(a)) < ord(Head(b))
    ELSE Less(Tail(a), Tail(b))

RECURSIVE sorted(_)
\* sorted(UPLOAD_DIR.iterdir()): the entries in ascending order.
sorted(names) ==
    IF names = {} THEN <<>>
    ELSE LET least == CHOOSE x \in names : \A y \in names \ {x} : Less(x, y)
         IN  <<least>> \o sorted(names \ {least})

\* Mutant: the entries in descending order.
list_files_Reversed(d, dk) ==
    LET entries == SelectSeq(sorted(DOMAIN d), LAMBDA p : d[p].kind = "file")
        count == Len(entries)
    IN  [i \in 1..count |->
            [name |-> entries[count + 1 - i], bytes |-> Len(dk[d[entries[count + 1 - i]].ino])]]

\* Lines 158-165: GET /api/list.  The regular files of the storage root in
\* sorted order, each with the size stat() reports now.
list_files(d, dk) ==
    LET entries == SelectSeq(sorted(DOMAIN d), LAMBDA p : d[p].kind = "file")
    IN  [i \in 1..Len(entries) |->
            [name |-> entries[i], bytes |-> Len(dk[d[entries[i]].ino])]]

\* Mutant: a download takes the file out of the storage root.
Download_Consumes(name) ==
    /\ reply' = download(dir, disk, name)
    /\ dir' = unlink(dir, safe_name(name))
    /\ disk' = Reclaim(disk, dir', out)
    /\ UNCHANGED <<config, pc, locals, result>>

Download(name) ==
    /\ reply' = download(dir, disk, name)
    /\ UNCHANGED <<config, volume, pc, locals, result>>

FileHash(name) ==
    /\ reply' = file_hash(dir, disk, name)
    /\ UNCHANGED <<config, volume, pc, locals, result>>

List ==
    /\ reply' = [NoReply EXCEPT !.op = "list", !.status = 200,
                                !.files = list_files(dir, disk)]
    /\ UNCHANGED <<config, volume, pc, locals, result>>

\* ----------------------------------------------------------------- inputs
Absent == [present |-> FALSE, numeric |-> FALSE, value |-> 0]
Garbage == [present |-> TRUE, numeric |-> FALSE, value |-> 0]
Number(n) == [present |-> TRUE, numeric |-> TRUE, value |-> n]

n_t == <<"n", ".", "t">>
n_1_t == <<"n", " ", "(", "1", ")", ".", "t">>
dotdot == <<".", ".">>
d_slash == <<"d", "/">>
up_n_t == <<".", ".", "/">> \o n_t

RECURSIVE SeqsOfLen(_, _)
SeqsOfLen(k, vals) ==
    IF k = 0 THEN {<<>>}
    ELSE {Append(q, b) : q \in SeqsOfLen(k - 1, vals), b \in vals}

\* The uploads of at most n bytes over the given byte values: the file's
\* bytes, and whether the body breaks off after them (the read that follows
\* the last byte raises instead of returning no data).
Uploads(n, vals) ==
    [data : UNION {SeqsOfLen(k, vals) : k \in 0..n}, broken : BOOLEAN]

\* ----------------------------------------------------------- construction
OldContent == <<1>>

Boot(limits, chunkSizes, capacities, roots) ==
    /\ MAX_FILE_BYTES \in limits
    /\ CHUNK_SIZE \in chunkSizes
    /\ capacity \in capacities
    /\ dir \in roots
    /\ disk = [i \in Inodes |->
                 IF \E n \in DOMAIN dir : dir[n].ino = i THEN OldContent ELSE <<>>]
    /\ pc = [s \in Sessions |-> "idle"]
    /\ filename = [s \in Sessions |-> <<>>]
    /\ content_length = [s \in Sessions |-> None]
    /\ dest_path = [s \in Sessions |-> <<>>]
    /\ written = [s \in Sessions |-> 0]
    /\ chunk = [s \in Sessions |-> <<>>]
    /\ out = [s \in Sessions |-> 0]
    /\ body = [s \in Sessions |-> <<>>]
    /\ broken = [s \in Sessions |-> FALSE]
    /\ source = [s \in Sessions |-> <<>>]
    /\ result = [s \in Sessions |-> NoResult]
    /\ reply = NoReply

EmptyRoot == << >>
\* A storage root that holds one subdirectory.
RootWithDir(n) == [m \in {n} |-> Directory]
\* A storage root that holds one or two files of earlier runs.
RootWithFile(n) == [m \in {n} |-> RegularFile(NumSessions + 1)]
RootWithFiles(n1, n2) ==
    [m \in {n1, n2} |-> IF m = n1 THEN RegularFile(NumSessions + 1)
                        ELSE RegularFile(NumSessions + 2)]

\* Requests are numbered in the order they arrive.
Arrived(s) == \A t \in Sessions : t < s => pc[t] # "idle"
\* No other request is in flight.
Alone(s) == \A t \in Sessions \ {s} : pc[t] \in {"idle", "done"}
\* The first request of a run.
First(s) == s = 1

\* The steps of a request after its first.
Continue(s) ==
    \/ Open(s)
    \/ \E k \in 1..MaxStream : ReadChunk(s, k)
    \/ WriteChunk(s)
    \/ ReadEnd(s)
    \/ ReadError(s)
    \/ Abort(s)
    \/ Hash(s)

\* ------------------------------------------------- concurrent uploads
\* Two hints of one base name; every request uploads bytes of its own value.
Hints == {n_t, up_n_t}
Headers == {Absent}

Init == Boot({0, 2}, {1, 2}, {3, 8}, {EmptyRoot})

Next ==
    \/ \E s \in Sessions, f \in Hints, h \in Headers :
          \E u \in Uploads(MaxStream, {s}) : Arrived(s) /\ Start(s, f, h, u)
    \/ \E s \in Sessions : Continue(s)

Spec == Init /\ [][Next]_vars

\* ------------------------------- names: one upload and catalog requests
sp_n == <<" ", "n">>
dot == <<".">>
up_up_p == <<".", ".", "/", ".", ".", "/", "p">>
a_b_c == <<"a", "/", "b", "/", "c">>
quoted_dotdot == <<"'", ".", ".", "'">>
quoted_n_t == <<"\"">> \o n_t \o <<"\"">>

NameHints == {<<>>, n_t, up_n_t, d_slash, dotdot, dot, sp_n}
NameUploads ==
    {[data |-> <<1>>, broken |-> FALSE], [data |-> <<1>>, broken |-> TRUE],
     [data |-> <<1, 1>>, broken |-> FALSE]}
Tokens == {up_up_p, a_b_c, dotdot, dot, quoted_dotdot, d_slash, n_t, quoted_n_t, sp_n}

InitNames ==
    Boot({1}, {1}, {8},
         {EmptyRoot, RootWithDir(n_t), RootWithFile(n_t), RootWithFiles(n_t, n_1_t)})

NextNames ==
    \/ \E s \in Sessions, f \in NameHints, u \in NameUploads :
          First(s) /\ Start(s, f, Absent, u)
    \/ \E s \in Sessions : Continue(s)
    \/ \E t \in Tokens : Download(t)
    \/ \E t \in Tokens : FileHash(t)

SpecNames == InitNames /\ [][NextNames]_vars

\* ------------------------------------------------------ sizes: one upload
SizeHeaders == {Absent, Garbage} \cup {Number(n) : n \in -1..(MaxStream + 2)}

InitSizes ==
    Boot(-1..MaxStream, 1..MaxStream, 0..(MaxStream + safety_margin + 2), {EmptyRoot})

NextSizes ==
    \/ \E s \in Sessions, h \in SizeHeaders, u \in Uploads(MaxStream + 1, {1}) :
          First(s) /\ Start(s, n_t, h, u)
    \/ \E s \in Sessions : Continue(s)

SpecSizes == InitSizes /\ [][NextSizes]_vars

\* ------------------------- uploads one after the other, catalog requests
\* An upload starts when no other is in flight, and the catalog requests
\* come once the uploads have answered.  Without a limit a volume of
\* 3 bytes runs short while an upload streams; with a limit of 2 it refuses
\* every upload up front.
SequenceTokens == {n_t, n_1_t}

InitSequence == Boot({0, 2}, {2}, {3, 8}, {EmptyRoot})

\* Every upload of the run has answered.
Settled == \A s \in Sessions : pc[s] = "done"

NextSequence ==
    \/ \E s \in Sessions, f \in Hints, u \in Uploads(MaxStream, {1}) :
          Arrived(s) /\ Alone(s) /\ Start(s, f, Absent, u)
    \/ \E s \in Sessions : Continue(s)
    \/ \E t \in SequenceTokens : Settled /\ Download(t)
    \/ \E t \in SequenceTokens : Settled /\ FileHash(t)
    \/ Settled /\ List

SpecSequence == InitSequence /\ [][NextSequence]_vars

\* ================================================================ claims
\* The whole uploaded file of a request: what was read and what was not.
Stream(s) == source[s] \o body[s]
Returned(s) == pc[s] = "done"
Succeeded(s) == pc[s] = "done" /\ result[s].status = 200
Failed(s) == pc[s] = "done" /\ result[s].status # 200
\* A request that has chosen its destination and has not answered yet.
InFlight(s) == pc[s] \in {"open", "read", "write", "too_large", "no_space", "hash"}
\* A request holds its destination name from the moment it chose it, and keeps
\* holding it once it has committed the file.
Holds(s) == InFlight(s) \/ Succeeded(s)
\* The names of the entries of the storage root.
Stored == DOMAIN dir

Max(a, b) == IF a >= b THEN a ELSE b
\* The declared size of a request, 0 when there is none.
Declared(s) == IF content_length[s] = None THEN 0 ELSE content_length[s][1]
\* Free space that lets no space check fail: room for the file, the limit and
\* the declared size, on top of the margin.
EnoughSpace(s) ==
    capacity >= Max(Len(Stream(s)), Max(MAX_FILE_BYTES, Declared(s))) + safety_margin
HintWithinLimit(s) == Declared(s) <= MAX_FILE_BYTES

\* The final "/"-separated segment of a hint; the fixed default when the
\* hint is empty.
SanitizedBase(hint) ==
    IF hint = <<>> THEN archivo ELSE Split(hint)[Len(Split(hint))]

\* "stem (k)ext" for the least k >= 1 that names no entry.
LeastUnused(names, base) ==
    LET cand(k) == Numbered(PathStem(base), k, PathSuffix(base))
        k0 == CHOOSE k \in 1..(Cardinality(names) + 1) :
                 cand(k) \notin names /\ \A j \in 1..(k - 1) : cand(j) \in names
    IN  cand(k0)

\* C1 (under SpecSizes, where the storage root is empty before the one
\* request): when the upload has answered with an error, whatever the
\* failure, the storage root holds no entry that was not there before.
C1_FailedIngestLeavesNoEntry ==
    \A s \in Sessions : Failed(s) => Stored = DOMAIN EmptyRoot

\* C2: a successful upload answers with the number of bytes its body carried,
\* and from then on the hash handler, given the returned name, answers with
\* the digest the upload returned, also when other uploads overlap it.
C2_BytesAndHashAgree ==
    \A s \in Sessions :
        Succeeded(s) =>
            /\ result[s].bytes = Len(Stream(s))
            /\ body[s] = <<>>
            /\ LET again == file_hash(dir, disk, result[s].filename)
               IN  again.status = 200 /\ again.body = <<result[s].sha256>>

\* C3: an upload is stored under the sanitized base name of its hint if the
\* storage root has no entry of that name, and otherwise under "stem (k)ext"
\* for the least k >= 1 whose name is unused.
C3_StoredNameRule ==
    [][\A s \in Sessions :
          (pc[s] = "idle" /\ pc'[s] = "open") =>
              LET base == SanitizedBase(filename'[s])
              IN  dest_path'[s] = IF base \notin Stored THEN base
                                  ELSE LeastUnused(Stored, base)]_vars

C5_OverLimitIsTooLarge ==
    \A s \in Sessions :
        (Returned(s) /\ MAX_FILE_BYTES > 0 /\ Len(Stream(s)) > MAX_FILE_BYTES)
            => result[s].status = TooLarge

\* C5, amended: with a positive limit L, whatever the declared size, a stream
\* of more than L bytes never succeeds, and with enough free space it fails
\* with TooLarge (short of space it may fail with InsufficientSpace or with
\* the error of a write instead).
C5_OverLimitNeverSucceeds ==
    \A s \in Sessions :
        (Returned(s) /\ MAX_FILE_BYTES > 0 /\ Len(Stream(s)) > MAX_FILE_BYTES) =>
            /\ result[s].status # 200
            /\ EnoughSpace(s) => result[s].status = TooLarge

\* A stream longer than the limit, declared shorter than it is, was refused
\* by the live check.
C5_Witness ==
    \E s \in Sessions :
        /\ Returned(s) /\ MAX_FILE_BYTES > 0 /\ Len(Stream(s)) > MAX_FILE_BYTES
        /\ content_length[s] # None /\ 0 < Declared(s) /\ Declared(s) <= MAX_FILE_BYTES
        /\ Len(source[s]) > MAX_FILE_BYTES /\ result[s].status = TooLarge

\* C6: when the read of the next chunk raised after the destination had been
\* opened, no file is left under the request's destination name once the
\* request has ended.
C6_BrokenStreamLeavesNoFile ==
    \A s \in Sessions :
        (Returned(s) /\ result[s].status = 500 /\ broken[s] /\ body[s] = <<>>)
            => ~is_file(dir, dest_path[s])

\* C7: whatever the token, download and file_hash look up a path that is not
\* outside the storage root, answer 200 only for a regular file directly
\* inside it, and answer NotFound otherwise.
C7_LookupInsideRoot ==
    [][reply' # reply =>
          /\ InsideRoot(reply'.path)
          /\ reply'.status \in {200, NotFound}
          /\ reply'.status = 200 =>
                (DirectChild(reply'.path) /\ Stat(dir, reply'.path).kind = "file")]_vars

\* C8: whatever the hint, the destination is a direct child of the storage
\* root, never the root or its parent, and its name comes from the hint's
\* final segment alone, plain or numbered.
C8_DestinationInsideRoot ==
    \A s \in Sessions :
        InFlight(s) =>
            LET place == UnderUploadDir(dest_path[s])
                seg == PathName(SanitizedBase(filename[s]))
            IN  /\ DirectChild(place)
                /\ place.down = <<dest_path[s]>>
                /\ \/ dest_path[s] = seg
                   \/ \E k \in 1..(Cardinality(Stored) + 1) :
                         dest_path[s] = Numbered(PathStem(seg), k, PathSuffix(seg))

\* An upload whose hint is "..", ends in "/" or has directory components
\* wrote its first byte.
C8_Witness ==
    \E s \in Sessions :
        /\ InFlight(s) /\ filename[s] \in {dotdot, d_slash, up_n_t}
        /\ out[s] # 0 /\ disk[out[s]] # <<>>

\* C9: no two requests ever hold the same destination name at the same time.
C9_NoSharedDestination ==
    \A s, t \in Sessions : (s # t /\ Holds(s) /\ Holds(t)) => dest_path[s] # dest_path[t]

\* C10: once an upload has answered 200 with a name, no later step of any
\* request deletes the file of that name or changes its content.
C10_CommittedFileIsFrozen ==
    [][\A s \in Sessions :
          Succeeded(s) =>
              /\ is_file(dir', result[s].filename)
              /\ download(dir', disk', result[s].filename).body
                    = download(dir, disk, result[s].filename).body]_vars

\* No upload is in flight.
Quiet == \A s \in Sessions : pc[s] \in {"idle", "done"}

\* The entry List shows for a successful upload: the returned name with the
\* returned byte count.
EntryOf(s) == [name |-> result[s].filename, bytes |-> result[s].bytes]

\* An upload that was refused or aborted for its size or for lack of space.
Refused(s) == Failed(s) /\ result[s].status \in {TooLarge, InsufficientSpace}

\* C11 (under SpecSequence: uploads one after the other into an empty storage
\* root): once the uploads so far have answered, List returns, sorted by name,
\* exactly one entry for every successful upload, with the returned name and
\* the returned byte count, and no entry for an upload that failed with
\* TooLarge or InsufficientSpace (no entry is a file that upload created):
\* every entry is that of a successful upload when the uploads failed in no
\* other way.
C11_ListMatchesIngests ==
    Quiet =>
        LET files == list_files(dir, disk)
            done == {s \in Sessions : Succeeded(s)}
            entries == {files[i] : i \in 1..Len(files)}
        IN  /\ \A s \in done :
                  Cardinality({i \in 1..Len(files) : files[i].name = result[s].filename}) = 1
            /\ {EntryOf(s) : s \in done} \subseteq entries
            /\ Cardinality({EntryOf(s) : s \in done}) = Cardinality(done)
            /\ \A i, j \in 1..Len(files) : i < j => Less(files[i].name, files[j].name)
            /\ \A s \in Sessions :
                  Refused(s) => \A e \in entries : dir[e.name].ino # s
            /\ (\A s \in Sessions : Returned(s) => (Succeeded(s) \/ Refused(s)))
                  => entries = {EntryOf(s) : s \in done}

\* Two uploads of one hint were stored, and List has answered with both.
C11_Witness ==
    /\ \A s \in Sessions : Succeeded(s)
    /\ reply.op = "list" /\ reply.files = list_files(dir, disk)
    /\ Len(reply.files) = NumSessions

\* C12: a List, download or hash request leaves the names, sizes and contents
\* of the storage root as they were, so the same request asked again right
\* after it gets the same answer.
C12_ReadSideHasNoEffect ==
    [][reply' # reply =>
          /\ dir' = dir /\ disk' = disk
          /\ reply'.op = "list" => reply'.files = list_files(dir', disk')
          /\ reply'.op = "hash" => reply' = file_hash(dir', disk', reply'.token)
          /\ reply'.op = "download" => reply' = download(dir', disk', reply'.token)]_vars

\* A download has served the bytes of a stored upload.
C12_Witness ==
    /\ reply.op = "download" /\ reply.status = 200 /\ reply.body # <<>>
    /\ \E s \in Sessions : Succeeded(s) /\ result[s].filename = reply.name

\* A hint that is empty or whose final "/"-separated segment is empty.
Unusable(hint) == basename(hint) = <<>>

\* The default base name, plain or numbered.
DefaultNames ==
    {archivo} \cup {Numbered(archivo, k, <<>>) : k \in 1..(Cardinality(Stored) + 1)}

\* C13: an upload whose hint is empty or ends in a path separator is not
\* refused for its name and is stored under the default base name, numbered
\* when that name is taken.
C13_UnusableHintGetsDefaultName ==
    \A s \in Sessions :
        (pc[s] # "idle" /\ Unusable(filename[s])) =>
            /\ dest_path[s] \in DefaultNames
            /\ (Returned(s) /\ ~broken[s]) => result[s].status # 500

\* A declared size is present and exceeds a positive limit.
DeclaredOverLimit(s) ==
    content_length[s] # None /\ MAX_FILE_BYTES > 0 /\ Declared(s) > MAX_FILE_BYTES

\* C14: an upload whose declared size exceeds a positive limit fails with
\* TooLarge as its first step: no destination name is chosen, the storage
\* root and the volume are as before and no byte of the body has been read.
C14_DeclaredOverLimitFailsFirst ==
    \A s \in Sessions :
        (pc[s] # "idle" /\ DeclaredOverLimit(s)) =>
            /\ Returned(s) /\ result[s].status = TooLarge
            /\ dest_path[s] = <<>> /\ out[s] = 0
            /\ source[s] = <<>> /\ written[s] = 0
            /\ Stored = DOMAIN EmptyRoot /\ disk_usage(disk) = capacity

\* A body of two bytes or more, declared over the limit, was refused.
C14_Witness ==
    \E s \in Sessions :
        /\ Returned(s) /\ DeclaredOverLimit(s) /\ result[s].status = TooLarge
        /\ Len(body[s]) >= 2

\* The expected size as specified: the declared size if it is positive, else
\* the limit if it is positive, else 0.
ExpectedAsSpecified(cl) ==
    IF cl # None /\ cl[1] > 0 THEN cl[1]
    ELSE IF MAX_FILE_BYTES > 0 THEN MAX_FILE_BYTES ELSE 0

\* C15: the first step of an upload that passes the size check fails with
\* InsufficientSpace, with no destination chosen and nothing written, exactly
\* when the expected size as specified is positive and free space is below
\* it plus the margin, whatever the header carries.
C15_PreflightSpaceCheck ==
    [][\A s \in Sessions :
          (pc[s] = "idle" /\ pc'[s] # "idle" /\ ~DeclaredOverLimit(s)') =>
              LET e == ExpectedAsSpecified(content_length'[s])
                  short == e > 0 /\ disk_usage(disk) < e + safety_margin
                  refused == /\ pc'[s] = "done"
                             /\ result'[s].status = InsufficientSpace
                             /\ dest_path'[s] = <<>>
                             /\ dir' = dir /\ disk' = disk
              IN  refused <=> short]_vars

\* C16: with a positive limit L, the destination file of an upload never
\* holds more than L bytes, because the chunk waiting to be written has
\* passed both checks: the count that includes it is at most L, and free
\* space is at least the margin.
C16_CheckBeforeCommit ==
    \A s \in Sessions :
        (MAX_FILE_BYTES > 0 /\ InFlight(s)) =>
            /\ is_file(dir, dest_path[s]) =>
                  Len(download(dir, disk, dest_path[s]).body) <= MAX_FILE_BYTES
            /\ out[s] # 0 => Len(disk[out[s]]) <= MAX_FILE_BYTES
            /\ pc[s] = "write" =>
                  /\ written[s] <= MAX_FILE_BYTES
                  /\ written[s] = Len(disk[out[s]]) + Len(chunk[s])
                  /\ disk_usage(disk) >= safety_margin

\* The file holds exactly L bytes and the chunk that would exceed the limit
\* has been read and refused.
C16_Witness ==
    \E s \in Sessions :
        /\ MAX_FILE_BYTES > 1 /\ pc[s] = "too_large"
        /\ Len(disk[out[s]]) = MAX_FILE_BYTES

\* C17: whatever the interleaving of the uploads, a chunk write never takes
\* the free space of the volume below the margin minus one chunk size.
C17_OverrunWithinOneChunk ==
    [][disk_usage(disk') < disk_usage(disk) =>
          disk_usage(disk') >= safety_margin - CHUNK_SIZE]_vars

\* C18: when a chunk has been counted and the limit is not exceeded but free
\* space is below the margin, the upload aborts: the chunk is not written,
\* the handle is closed, the file is deleted and the answer is
\* InsufficientSpace, which is not TooLarge; when the chunk also exceeds the
\* limit, the size check decides and the answer is TooLarge.
C18_MidStreamNoSpace ==
    [][\A s \in Sessions :
          /\ (pc[s] = "read" /\ written'[s] > written[s]) =>
                LET over == MAX_FILE_BYTES > 0 /\ written'[s] > MAX_FILE_BYTES
                    short == disk_usage(disk) < safety_margin
                IN  /\ disk' = disk /\ dir' = dir
                    /\ over => pc'[s] = "too_large"
                    /\ (~over /\ short) => pc'[s] = "no_space"
                    /\ (~over /\ ~short) => pc'[s] = "write"
          /\ (pc[s] \in {"too_large", "no_space"} /\ pc'[s] # pc[s]) =>
                /\ pc'[s] = "done"
                /\ result'[s].status =
                      (IF pc[s] = "no_space" THEN InsufficientSpace ELSE TooLarge)
                /\ out'[s] = 0
                /\ ~exists(dir', dest_path[s])
                /\ disk'[out[s]] = <<>>]_vars

\* An upload that had written a chunk was aborted for lack of space.
C18_Witness ==
    \E s \in Sessions :
        /\ Returned(s) /\ result[s].status = InsufficientSpace
        /\ dest_path[s] # <<>> /\ Len(source[s]) >= 2

\* An upload that chose a destination and was aborted by the live size check
\* or the live space check.
AbortedLive(s) == Refused(s) /\ dest_path[s] # <<>>

\* C19 (under SpecSequence: uploads one after the other): after an upload
\* was aborted by a live size or space violation, the next upload, if it has
\* the same hint and succeeds, is stored under exactly the name the aborted
\* upload had reserved.
C19_AbortFreesName ==
    \A s, t \in Sessions :
        (t = s + 1 /\ AbortedLive(s) /\ filename[t] = filename[s] /\ Succeeded(t))
            => result[t].filename = dest_path[s]

\* An upload aborted for lack of space was followed by a successful upload of
\* the same hint.
C19_Witness ==
    \E s, t \in Sessions :
        /\ t = s + 1 /\ AbortedLive(s) /\ result[s].status = InsufficientSpace
        /\ filename[t] = filename[s] /\ Succeeded(t) /\ result[t].bytes > 0

\* C20: the name a successful upload returned, and every name List shows,
\* given back verbatim to download or to the hash handler, resolves to the
\* stored file of that name: its content, its digest.
C20_NameRoundTrip ==
    /\ \A s \in Sessions :
          Succeeded(s) =>
              LET served == download(dir, disk, result[s].filename)
                  hashed == file_hash(dir, disk, result[s].filename)
              IN  /\ served.status = 200 /\ served.name = result[s].filename
                  /\ served.body = disk[dir[result[s].filename].ino]
                  /\ hashed.status = 200 /\ hashed.body = <<result[s].sha256>>
    /\ LET files == list_files(dir, disk)
       IN  \A i \in 1..Len(files) :
               LET served == download(dir, disk, files[i].name)
               IN  served.status = 200 /\ served.name = files[i].name

====
